---- MODULE Spec2Model ----
(***************************************************************************)
(* HelvetiScan (src/src/api.ts): the response cache and the resilient      *)
(* fetcher fetchFromAPI, the page filter filterUnwantedPages, the trend     *)
(* calculator calculateTrendsImproved, the relevance filter                 *)
(* filterSwissArticlesV2, the enricher enrichArticlesWithMetadata and the   *)
(* operations fetchTopArticles and fetchTrendingArticles, as state          *)
(* machines.                                                                *)
(*                                                                         *)
(* Strings are sequences of tokens: a word or a part of a word ("Talk",     *)
(* "Zurich", "Televi" "sion"), a separator (":", "_", " ") or a percent     *)
(* escape ("%3A", "%20", "%5F").                                            *)
(***************************************************************************)
EXTENDS Integers, Sequences, FiniteSets, TLC

(***************************************************************************)
(* Bounds of the model.                                                    *)
(***************************************************************************)
\* api.ts:8 sets the capacity to 100; the model runs the same code with a
\* small capacity so that a run fills the cache and evicts.
MAX_CACHE_SIZE == 2
\* number of distinct request urls of the fetcher specification
NumKeys == 3
\* concurrently running invocations of fetchFromAPI
NumProcs == 2
\* remote calls made in one run of one invocation at a time
MaxCalls == 5
\* steps of time in one run of one invocation at a time
MaxTicks == 2
\* remote calls made in one run of concurrent invocations
ConcCalls == 3
\* remote calls made in one operation of the orchestrator
TopCalls == 5
\* articles in one list or snapshot
MaxLen == 4
\* api.ts:126 caps a result at 50 articles and api.ts:293 enriches in batches
\* of 25; the model runs the same code with a small cap and a small batch so
\* that a snapshot of MaxLen articles is cut and takes several batches.
RESULT_CAP == 2
ENRICH_BATCH == 2
\* articles in one snapshot given to calculateTrendsImproved, and in one
\* snapshot of a run of fetchTrendingArticles
TrendLen == 2
\* api.ts:248 skips the second stage at 10 keyword matches, api.ts:257 takes
\* the rest in batches of 50 and api.ts:276 stops at 50 matches; the model
\* runs the same code with small numbers so that a list of MaxLen articles
\* reaches each of them.
KEYWORD_MIN == 2
CATEGORY_BATCH == 2
CATEGORY_STOP == 3
\* remote calls made in one run of filterSwissArticlesV2
SwissCalls == 4
\* remote calls made in one run of fetchTrendingArticles
TrendingCalls == 4
\* articles in one snapshot, and remote calls made, in one run of
\* fetchTrendingArticles that is followed for the dates it requests
DatesLen == 1
DatesCalls == 3
\* articles in one snapshot of an operation that is followed to its end
LiveLen == 1
\* a cache that holds one entry more, the distinct urls requested, the remote
\* calls made and the steps of time taken in one run in which an entry is
\* refreshed while the cache has room
RefreshCapacity == 3
RefreshKeys == 4
RefreshCalls == 5
RefreshTicks == 2

(***************************************************************************)
(* Program constants.                                                      *)
(***************************************************************************)
CACHE_TTL == 15 * 60 * 1000
INITIAL_RETRIES == 3
INITIAL_DELAY == 1000

Procs == 1 .. NumProcs

\* the urls fetchFromAPI is called with in the fetcher specification
RawUrls == { [kind |-> "raw", id |-> i] : i \in 1 .. NumKeys }

\* time passes in steps of one backoff unit or of the rest of a TTL
Durations == { INITIAL_DELAY, CACHE_TTL - INITIAL_DELAY }

None == [kind |-> "none"]

\* what response.json() yields: the body b the remote made for the url of the
\* n-th remote call of the run
Payload(u, n, b) == [kind |-> "payload", for |-> u, call |-> n, body |-> b]

\* the three failures of one attempt; n is the attempt of the invocation
Failure(cause, n) == [kind |-> "error", cause |-> cause, attempt |-> n]

VARIABLES
    clock,      \* Date.now()
    ticks,      \* steps of time taken so far
    calls,      \* remote calls issued so far
    used,       \* how many of the urls have been requested so far (history)
    cache,      \* the Map, as the sequence of its entries in insertion order
    log,        \* the keys of the successful inserts, in order (history)
    evicted,    \* the keys deleted by the capacity rule, in order (history)
    pc,         \* where each invocation of fetchFromAPI is
    url,        \* its argument
    now,        \* its const now
    retries,    \* its let retries
    delay,      \* its let delay
    lastError,  \* its let lastError
    wakeAt,     \* when its pending setTimeout fires
    waited,     \* the delays it has awaited, in order (history)
    attempts,   \* the remote calls it has made (history)
    serial,     \* which remote call of the run its pending one is (history)
    hit,        \* whether it returned from the cache (history)
    atEntry,    \* the cache as it found it when it was called (history)
    result      \* the value it returned or the error it threw

fvars == << clock, ticks, calls, used, cache, log, evicted, pc, url, now, retries,
            delay, lastError, wakeAt, waited, attempts, serial, hit, atEntry,
            result >>

VARIABLES
    input,      \* filterUnwantedPages: the list it is applied to
    once,       \* its result
    twice,      \* its result applied to its result
    fpc         \* which of the two applications have run

pvars == << input, once, twice, fpc >>

VARIABLES
    stack,      \* the frames of the async functions awaiting, outermost first
    ret,        \* what the callee handed to the innermost frame, or, with no
                \* frame left, what the operation handed to its caller
    req,        \* the arguments of the operation (history)
    snap,       \* the snapshot the upstream answered it with (history)
    asked,      \* the urls the operation called fetchFromAPI with, and how
                \* and with what each call ended (history)
    returns     \* the calls of the enricher and of the relevance filter that
                \* have returned: argument and result (history)

ovars == << stack, ret, req, snap, asked, returns >>

VARIABLES
    ranking,    \* how many articles the upstream ranks at most in one snapshot
    capacity    \* the capacity the module was built with: const MAX_CACHE_SIZE

evars == << ranking, capacity >>

VARIABLES
    currentArticles,    \* calculateTrendsImproved: its first argument
    previousArticles,   \* its second argument
    trends,             \* its const trends (history)
    trending,           \* what it returned
    tpc                 \* whether it has run

tvars == << currentArticles, previousArticles, trends, trending, tpc >>

vars == << fvars, pvars, ovars, tvars, evars >>

(***************************************************************************)
(* Strings.  decodeURIComponent maps each percent escape to its character; *)
(* the identifiers of the upstream service are URL-encoded titles          *)
(* (Article.article), so every escape in them is well-formed.              *)
(***************************************************************************)
DecodeToken(t) ==
    CASE t = "%3A" -> ":"
      [] t = "%3a" -> ":"
      [] t = "%20" -> " "
      [] t = "%5F" -> "_"
      [] t = "%5f" -> "_"
      [] t = "%253A" -> "%3A"
      [] t = "%253a" -> "%3a"
      [] OTHER -> t

\* decodeURIComponent(s)
decodeURIComponent(s) == [i \in 1 .. Len(s) |-> DecodeToken(s[i])]

\* s.replace(/_/g, ' ')
ReplaceUnderscores(s) == [i \in 1 .. Len(s) |-> IF s[i] = "_" THEN " " ELSE s[i]]

\* the lower case of the words that have an upper case letter
LowerToken(t) ==
    CASE t = "Zurich" -> "zurich"
      [] t = "FC" -> "fc"
      [] t = "Basel" -> "basel"
      [] t = "Televi" -> "televi"
      [] t = "Roger" -> "roger"
      [] t = "Federer" -> "federer"
      [] t = "Matterhorn" -> "matterhorn"
      [] t = "Talk" -> "talk"
      [] t = "HTTP" -> "http"
      [] t = "Category" -> "category"
      [] t = "Cities" -> "cities"
      [] t = "Switzerland" -> "switzerland"
      [] t = "Living" -> "living"
      [] t = "%3A" -> "%3a"
      [] t = "%5F" -> "%5f"
      [] t = "%253A" -> "%253a"
      [] OTHER -> t

\* s.toLowerCase()
toLowerCase(s) == [i \in 1 .. Len(s) |-> LowerToken(s[i])]

\* s.includes(term)
includes(s, term) ==
    \E i \in 0 .. Len(s) - Len(term) : SubSeq(s, i + 1, i + Len(term)) = term

\* s.startsWith(prefix)
startsWith(s, prefix) ==
    /\ Len(prefix) <= Len(s)
    /\ SubSeq(s, 1, Len(prefix)) = prefix

(***************************************************************************)
(* filterUnwantedPages, api.ts:67-88.                                      *)
(***************************************************************************)
\* api.ts:68-74
unwantedPrefixes ==
    { << w, ":" >> : w \in
        { "Wikipédia", "Wikipedia", "Special", "Spécial", "Speciale", "Spezial",
          "MediaWiki", "Help", "Aide", "Hilfe", "Ayuda", "Template", "Modèle",
          "Vorlage", "Plantilla", "User", "Utilisateur", "Benutzer", "Usuario",
          "Talk", "Discussion", "Diskussion", "Discusión" } }

\* api.ts:76-81
unwantedPages ==
    { << "Wikipédia", ":", "Accueil", "_", "principal" >>,
      << "Wikipedia", ":", "Main", "_", "Page" >>,
      << "Wikipedia", ":", "Hauptseite" >>,
      << "Wikipedia", ":", "Portada" >>,
      << "Cookie", "_", "(", "informatique", ")" >>,
      << "HTTP", "_", "cookie" >>,
      << "Cookie" >>,
      << "Recherche" >>, << "Search" >>, << "Suche" >>, << "Búsqueda" >> }

\* api.ts:84-86  the negation of the predicate of the filter
IsUnwanted(id) ==
    LET decodedTitle == decodeURIComponent(id) IN
    \/ \E prefix \in unwantedPrefixes : startsWith(decodedTitle, prefix)
    \/ decodedTitle \in unwantedPages

\* a filter that hands on the decoded titles
filterUnwantedPagesDecoding(articles) ==
    LET kept == SelectSeq(articles, LAMBDA a : ~ IsUnwanted(a.article)) IN
    [i \in 1 .. Len(kept) |-> [kept[i] EXCEPT !.article = decodeURIComponent(@)]]

\* api.ts:83-87  articles.filter(...)
filterUnwantedPages(articles) ==
    SelectSeq(articles, LAMBDA a : ~ IsUnwanted(a.article))

\* the identifiers a snapshot is made of: plain, unwanted by prefix and by
\* exact title, and the same titles with escapes
ArticleIds ==
    { << "Zurich" >>,
      << "Roger", "_", "Federer" >>,
      << "Search", "_", "engine" >>,
      << "Talk", ":", "Zurich" >>,
      << "Talk", "%3A", "Zurich" >>,
      << "Talk", "%253A", "Zurich" >>,
      << "HTTP", "_", "cookie" >>,
      << "HTTP", "%20", "cookie" >>,
      << "Search" >> }

\* types.ts Article: the identifier and the views
Article(id) == [article |-> id, views |-> 1]

\* the lists of at most n articles
RECURSIVE ArticleLists(_)
ArticleLists(n) ==
    IF n = 0 THEN { << >> }
    ELSE LET shorter == ArticleLists(n - 1) IN
         shorter \cup { Append(l, Article(id)) : l \in { x \in shorter : Len(x) = n - 1 },
                                                 id \in ArticleIds }

(***************************************************************************)
(* The upstream services, api.ts:113 and api.ts:340.                       *)
(***************************************************************************)
\* types.ts Language, Period
Languages == { "fr", "en", "de", "es" }

Periods == { "daily", "48h", "weekly", "monthly" }

\* arr.slice(a, b)
slice(arr, a, b) == SubSeq(arr, a + 1, IF b < Len(arr) THEN b ELSE Len(arr))

\* api.ts:110-113, 167-169  the url of the top list of the day daysBack days
\* before today
TopUrl(language, daysBack) ==
    [kind |-> "top", project |-> language, daysBack |-> daysBack]

\* api.ts:339-340  the url of the metadata of the titles
MetaUrl(language, titles) ==
    [kind |-> "meta", language |-> language, titles |-> titles]

\* the identifiers the upstream ranks
SnapshotIds ==
    { << "Zurich" >>,
      << "FC", "_", "Basel" >>,
      << "Talk", ":", "Zurich" >>,
      << "HTTP", "%20", "cookie" >> }

\* the views the upstream counts: the same for every article of the latest
\* day, and for an earlier day fewer than the floor or fewer
LatestViews == { 20000 }

EarlierViews == { 50, 2000 }

\* types.ts Article, as the upstream ranks it
Ranked(id, views) == [article |-> id, views |-> views]

\* the snapshots of at most n articles of the identifiers ids with views of V:
\* identifiers unique within one
RECURSIVE RankedLists(_, _, _)
RankedLists(n, ids, V) ==
    IF n = 0 THEN { << >> }
    ELSE LET shorter == RankedLists(n - 1, ids, V) IN
         shorter \cup
         { Append(q[1], Ranked(q[2], q[3])) :
             q \in { r \in shorter \X ids \X V :
                       /\ Len(r[1]) = n - 1
                       /\ \A i \in 1 .. Len(r[1]) : r[1][i].article # r[2] } }

\* the snapshots of at most n articles the upstream answers with for the day
\* daysBack days before today
Snapshots(n, daysBack) ==
    RankedLists(n, SnapshotIds, IF daysBack = 1 THEN LatestViews ELSE EarlierViews)

\* the pages the metadata service may answer with for the titles asked: for
\* each title none, a page without categories, or a page in a Swiss category
MetaPage(title, what) ==
    [title |-> title,
     categories |-> IF what = "swiss"
                    THEN << << "Category", ":", "Cities", " ", "in", " ", "Switzerland" >> >>
                    ELSE << >>]

MetaBodies(titles) ==
    { LET all == [i \in 1 .. Len(titles) |-> MetaPage(titles[i], f[i])]
      IN  SelectSeq(all, LAMBDA pg : \E i \in 1 .. Len(titles) :
                                        titles[i] = pg.title /\ f[i] # "absent")
      : f \in [1 .. Len(titles) -> { "absent", "plain", "swiss" }] }

\* the bodies the remote may answer a url with
Bodies(u) ==
    CASE u.kind = "top" -> Snapshots(ranking, u.daysBack)
      [] u.kind = "meta" -> MetaBodies(u.titles)
      [] OTHER -> { None }

(***************************************************************************)
(* The Map of api.ts:9.                                                    *)
(***************************************************************************)
MapKeys(c) == { c[i].key : i \in 1 .. Len(c) }

MapHas(c, k) == k \in MapKeys(c)

\* cache.get(url)
MapGet(c, k) ==
    IF MapHas(c, k)
    THEN LET i == CHOOSE j \in 1 .. Len(c) : c[j].key = k IN c[i]
    ELSE None

\* a lookup that moves the entry it finds to the end of the order
MapReadRefreshing(c, k, t) ==
    IF MapHas(c, k)
    THEN Append(SelectSeq(c, LAMBDA e : e.key # k), MapGet(c, k))
    ELSE c

\* a lookup that removes the entry it finds when it is older than the TTL
MapReadExpiring(c, k, t) ==
    IF MapHas(c, k) /\ t - MapGet(c, k).timestamp >= CACHE_TTL
    THEN SelectSeq(c, LAMBDA e : e.key # k)
    ELSE c

\* api.ts:19-20  the Map after cache.get(url) and the test of the age at
\* time t: as it was
MapRead(c, k, t) == c

\* a delete that removes nothing
MapDeleteNothing(c, k) == c

\* cache.delete(key)
MapDelete(c, k) == SelectSeq(c, LAMBDA e : e.key # k)

\* cache.set(key, value): a key already present keeps its place
MapSet(c, k, d, t) ==
    LET e == [key |-> k, data |-> d, timestamp |-> t] IN
    IF MapHas(c, k)
    THEN [i \in 1 .. Len(c) |-> IF c[i].key = k THEN e ELSE c[i]]
    ELSE Append(c, e)

\* a lookup that keeps serving an entry whatever its age
IsFreshForever(c, k, t) == MapHas(c, k)

\* api.ts:20  cached && (now - cached.timestamp) < CACHE_TTL
IsFresh(c, k, t) ==
    /\ MapHas(c, k)
    /\ t - MapGet(c, k).timestamp < CACHE_TTL

\* a capacity test that lets one entry too many in
AtCapacityLate(c) == Len(c) > capacity

\* api.ts:42  cache.size >= MAX_CACHE_SIZE
AtCapacity(c) == Len(c) >= capacity

\* a capacity rule that deletes the newest entry
EvictedKeyNewest(c) == IF AtCapacity(c) /\ Len(c) > 0 THEN << c[Len(c)].key >> ELSE << >>

\* api.ts:42-44  the key the capacity rule deletes, if any: cache.keys().next()
EvictedKey(c) == IF AtCapacity(c) /\ Len(c) > 0 THEN << c[1].key >> ELSE << >>

\* a cache keyed by the kind of request only
CacheKeyCoarse(u) == [u EXCEPT !.id = 1]

\* api.ts:19, 46  the Map is keyed by the url itself
CacheKey(u) == u

\* a retry loop that never gives up
RetriesLeftForever(r) == TRUE

\* a retry loop that runs once more
RetriesLeftOneMore(r) == r >= 0

\* api.ts:29, 54  retries > 0
RetriesLeft(r) == r > 0

\* a catch block that does not count a malformed payload as an attempt
RetriesAfterParseFree(r, cause) == IF cause = "parse" THEN r ELSE r - 1

\* api.ts:49-52  retries--, whatever the error caught
RetriesAfter(r, cause) == r - 1

\* a backoff that waits the same delay again
NextDelaySame(d) == d

\* api.ts:56  delay *= 2
NextDelay(d) == d * 2

\* api.ts:42-46  bound the cache, then store the payload under the url
CacheStore(c, k, d, t) ==
    LET kept == IF EvictedKey(c) # << >> THEN MapDelete(c, EvictedKey(c)[1]) ELSE c
    IN  MapSet(kept, k, d, t)

(***************************************************************************)
(* fetchFromAPI, api.ts:15-62.                                             *)
(***************************************************************************)
\* api.ts:29-31  the loop condition, then the fetch of one attempt
IssueAttempt(p) ==
    /\ calls' = calls + 1
    /\ serial' = [serial EXCEPT ![p] = calls + 1]
    /\ attempts' = [attempts EXCEPT ![p] = @ + 1]
    /\ pc' = [pc EXCEPT ![p] = "fetch"]

\* api.ts:16-31  entry: the cache check, and on a miss the first attempt
Call(p, u) ==
    /\ pc[p] = "idle"
    /\ url' = [url EXCEPT ![p] = u]
    /\ now' = [now EXCEPT ![p] = clock]
    /\ used' = IF u.kind = "raw" /\ u.id > used THEN u.id ELSE used
    /\ IF IsFresh(cache, CacheKey(u), clock)
       THEN /\ pc' = [pc EXCEPT ![p] = "returned"]
            /\ result' = [result EXCEPT ![p] = MapGet(cache, CacheKey(u)).data]
            /\ hit' = [hit EXCEPT ![p] = TRUE]
            /\ UNCHANGED << calls, attempts, serial, retries, delay, lastError >>
       ELSE /\ retries' = [retries EXCEPT ![p] = INITIAL_RETRIES]
            /\ delay' = [delay EXCEPT ![p] = INITIAL_DELAY]
            /\ lastError' = [lastError EXCEPT ![p] = None]
            /\ IssueAttempt(p)
            /\ UNCHANGED << result, hit >>
    /\ cache' = MapRead(cache, CacheKey(u), clock)
    /\ atEntry' = [atEntry EXCEPT ![p] = cache]
    /\ UNCHANGED << clock, ticks, log, evicted, wakeAt, waited >>

\* api.ts:49-61  the catch block of one attempt, and the throw after the loop
Catch(p, cause) ==
    /\ lastError' = [lastError EXCEPT ![p] = Failure(cause, attempts[p])]
    /\ retries' = [retries EXCEPT ![p] = RetriesAfter(@, cause)]
    /\ IF RetriesLeft(RetriesAfter(retries[p], cause))
       THEN /\ pc' = [pc EXCEPT ![p] = "sleep"]
            /\ wakeAt' = [wakeAt EXCEPT ![p] = clock + delay[p]]
            /\ waited' = [waited EXCEPT ![p] = Append(@, delay[p])]
            /\ UNCHANGED result
       ELSE /\ pc' = [pc EXCEPT ![p] = "threw"]
            /\ result' = [result EXCEPT ![p] = Failure(cause, attempts[p])]
            /\ UNCHANGED << wakeAt, waited >>
    /\ UNCHANGED << clock, ticks, calls, used, cache, log, evicted, url, now, delay,
                    attempts, serial, hit, atEntry >>

\* api.ts:31  fetch rejects: a transport failure
FetchReject(p) ==
    /\ pc[p] = "fetch"
    /\ Catch(p, "transport")

\* api.ts:35-37  fetch resolves with a non-success status
FetchStatus(p) ==
    /\ pc[p] = "fetch"
    /\ Catch(p, "status")

\* api.ts:31-39  fetch resolves with response.ok; response.json() is awaited
FetchOk(p) ==
    /\ pc[p] = "fetch"
    /\ pc' = [pc EXCEPT ![p] = "json"]
    /\ UNCHANGED << clock, ticks, calls, used, cache, log, evicted, url, now, retries,
                    delay, lastError, wakeAt, waited, attempts, serial, hit, atEntry,
                    result >>

\* api.ts:39  response.json() rejects: a malformed payload
JsonReject(p) ==
    /\ pc[p] = "json"
    /\ Catch(p, "parse")

\* api.ts:39-48  response.json() resolves: store the payload and return it
JsonOk(p) ==
    /\ pc[p] = "json"
    /\ \E body \in Bodies(url[p]) :
          LET data == Payload(url[p], serial[p], body) IN
          /\ cache' = CacheStore(cache, CacheKey(url[p]), data, now[p])
          /\ result' = [result EXCEPT ![p] = data]
    /\ log' = Append(log, url[p])
    /\ evicted' = evicted \o EvictedKey(cache)
    /\ pc' = [pc EXCEPT ![p] = "returned"]
    /\ UNCHANGED << clock, ticks, calls, used, url, now, retries, delay, lastError,
                    wakeAt, waited, attempts, serial, hit, atEntry >>

\* api.ts:55-56, 29-31  the timer fires, no earlier than it was set for: the
\* delay doubles and the next attempt starts
TimerFire(p) ==
    /\ pc[p] = "sleep"
    /\ clock' = IF clock < wakeAt[p] THEN wakeAt[p] ELSE clock
    /\ delay' = [delay EXCEPT ![p] = NextDelay(@)]
    /\ IssueAttempt(p)
    /\ UNCHANGED << ticks, used, cache, log, evicted, url, now, retries, lastError,
                    wakeAt, waited, hit, atEntry, result >>

\* the caller takes the result; the invocation's frame is gone
Finish(p) ==
    /\ pc[p] \in { "returned", "threw" }
    /\ pc' = [pc EXCEPT ![p] = "idle"]
    /\ url' = [url EXCEPT ![p] = None]
    /\ now' = [now EXCEPT ![p] = 0]
    /\ retries' = [retries EXCEPT ![p] = 0]
    /\ delay' = [delay EXCEPT ![p] = 0]
    /\ lastError' = [lastError EXCEPT ![p] = None]
    /\ wakeAt' = [wakeAt EXCEPT ![p] = 0]
    /\ waited' = [waited EXCEPT ![p] = << >>]
    /\ attempts' = [attempts EXCEPT ![p] = 0]
    /\ serial' = [serial EXCEPT ![p] = 0]
    /\ hit' = [hit EXCEPT ![p] = FALSE]
    /\ atEntry' = [atEntry EXCEPT ![p] = << >>]
    /\ result' = [result EXCEPT ![p] = None]
    /\ UNCHANGED << clock, ticks, calls, used, cache, log, evicted >>

\* Date.now() moves on
Tick(d) ==
    /\ ticks' = ticks + 1
    /\ clock' = clock + d
    /\ UNCHANGED << calls, used, cache, log, evicted, pc, url, now, retries, delay,
                    lastError, wakeAt, waited, attempts, serial, hit, atEntry, result >>

FetcherInit ==
    /\ clock = 0
    /\ ticks = 0
    /\ calls = 0
    /\ used = 0
    /\ cache = << >>
    /\ log = << >>
    /\ evicted = << >>
    /\ pc = [p \in Procs |-> "idle"]
    /\ url = [p \in Procs |-> None]
    /\ now = [p \in Procs |-> 0]
    /\ retries = [p \in Procs |-> 0]
    /\ delay = [p \in Procs |-> 0]
    /\ lastError = [p \in Procs |-> None]
    /\ wakeAt = [p \in Procs |-> 0]
    /\ waited = [p \in Procs |-> << >>]
    /\ attempts = [p \in Procs |-> 0]
    /\ serial = [p \in Procs |-> 0]
    /\ hit = [p \in Procs |-> FALSE]
    /\ atEntry = [p \in Procs |-> << >>]
    /\ result = [p \in Procs |-> None]

\* The urls are interchangeable and so are the idle processes: a run names
\* its urls in the order of their first request, and starts an invocation on
\* the first idle process.
InOrder(ps, p, u) ==
    /\ u.id <= used + 1
    /\ \A q \in ps : q < p => pc[q] # "idle"

\* the page filter at rest
FilterOff ==
    /\ input = << >>
    /\ once = << >>
    /\ twice = << >>
    /\ fpc = "off"

\* no operation of the orchestrator running
PipelineOff ==
    /\ stack = << >>
    /\ ret = None
    /\ req = None
    /\ snap = << >>
    /\ asked = << >>
    /\ returns = << >>

\* the trend calculator at rest
TrendOff ==
    /\ currentArticles = << >>
    /\ previousArticles = << >>
    /\ trends = << >>
    /\ trending = << >>
    /\ tpc = "off"

\* the module as built: api.ts:8
Built == capacity = MAX_CACHE_SIZE

Init == FetcherInit /\ FilterOff /\ PipelineOff /\ TrendOff /\ ranking = MaxLen /\ Built

\* the process that runs the invocations made one at a time
Main == CHOOSE p \in Procs : \A q \in Procs : p <= q

\* a step A of a run of invocations made one at a time
Alone(A) ==
    /\ A
    /\ calls' <= MaxCalls
    /\ ticks' <= MaxTicks
    /\ UNCHANGED << pvars, ovars, tvars, evars >>

\* one invocation of fetchFromAPI at a time, and time passing
Next ==
    \/ \E u \in RawUrls : Alone(InOrder({ Main }, Main, u) /\ Call(Main, u))
    \/ Alone(FetchReject(Main))
    \/ Alone(FetchStatus(Main))
    \/ Alone(FetchOk(Main))
    \/ Alone(JsonReject(Main))
    \/ Alone(JsonOk(Main))
    \/ Alone(TimerFire(Main))
    \/ Alone(Finish(Main))
    \/ \E d \in Durations : Alone(Tick(d))

Spec == Init /\ [][Next]_vars

\* a step A of a run of concurrent invocations
Together(A) ==
    /\ A
    /\ calls' <= ConcCalls
    /\ UNCHANGED << pvars, ovars, tvars, evars >>

\* invocations of fetchFromAPI running concurrently; time passes with the
\* backoff timers
NextConc ==
    \/ \E p \in Procs, u \in RawUrls : Together(InOrder(Procs, p, u) /\ Call(p, u))
    \/ \E p \in Procs : Together(FetchReject(p))
    \/ \E p \in Procs : Together(FetchStatus(p))
    \/ \E p \in Procs : Together(FetchOk(p))
    \/ \E p \in Procs : Together(JsonReject(p))
    \/ \E p \in Procs : Together(JsonOk(p))
    \/ \E p \in Procs : Together(TimerFire(p))
    \/ \E p \in Procs : Together(Finish(p))

SpecConc == Init /\ [][NextConc]_vars

\* the urls fetchFromAPI is called with in a run that refreshes an entry
RefreshUrls == { [kind |-> "raw", id |-> i] : i \in 1 .. RefreshKeys }

\* a step A of a run that refreshes an entry
Refreshing(A) ==
    /\ A
    /\ calls' <= RefreshCalls
    /\ ticks' <= RefreshTicks
    /\ UNCHANGED << pvars, ovars, tvars, evars >>

InitRefresh ==
    /\ FetcherInit /\ FilterOff /\ PipelineOff /\ TrendOff
    /\ ranking = MaxLen
    /\ capacity = RefreshCapacity

\* one invocation of fetchFromAPI at a time, and time passing, the module
\* built with a capacity of RefreshCapacity entries
NextRefresh ==
    \/ \E u \in RefreshUrls : Refreshing(InOrder({ Main }, Main, u) /\ Call(Main, u))
    \/ Refreshing(FetchReject(Main))
    \/ Refreshing(FetchStatus(Main))
    \/ Refreshing(FetchOk(Main))
    \/ Refreshing(JsonReject(Main))
    \/ Refreshing(JsonOk(Main))
    \/ Refreshing(TimerFire(Main))
    \/ Refreshing(Finish(Main))
    \/ \E d \in Durations : Refreshing(Tick(d))

SpecRefresh == InitRefresh /\ [][NextRefresh]_vars

(***************************************************************************)
(* filterUnwantedPages applied to every list of at most MaxLen articles,   *)
(* and then to its own result.                                             *)
(***************************************************************************)
InitFilter ==
    /\ FetcherInit
    /\ PipelineOff
    /\ TrendOff
    /\ ranking = MaxLen
    /\ Built
    /\ input \in ArticleLists(MaxLen)
    /\ once = << >>
    /\ twice = << >>
    /\ fpc = "start"

ApplyFilter ==
    /\ fpc = "start"
    /\ once' = filterUnwantedPages(input)
    /\ fpc' = "once"
    /\ UNCHANGED << input, twice >>

ApplyFilterAgain ==
    /\ fpc = "once"
    /\ twice' = filterUnwantedPages(once)
    /\ fpc' = "twice"
    /\ UNCHANGED << input, once >>

NextFilter ==
    \/ ApplyFilter /\ UNCHANGED << fvars, ovars, tvars, evars >>
    \/ ApplyFilterAgain /\ UNCHANGED << fvars, ovars, tvars, evars >>

SpecFilter == InitFilter /\ [][NextFilter]_vars

(***************************************************************************)
(* calculateTrendsImproved, api.ts:180-221, applied to every pair of        *)
(* snapshots of at most TrendLen articles.  A quotient is kept exact, as    *)
(* the fraction in lowest terms.                                            *)
(***************************************************************************)
\* api.ts:188  the reliability floor
RELIABILITY_FLOOR == 100

\* api.ts:202  the thresholds of the tier high
HIGH_VIEWS == 10000

HIGH_PREVIOUS == 1000

RECURSIVE Gcd(_, _)
Gcd(a, b) == IF b = 0 THEN a ELSE Gcd(b, a % b)

Abs(n) == IF n < 0 THEN 0 - n ELSE n

\* the number n / d, d > 0
Fraction(n, d) ==
    LET g == Gcd(Abs(n), d) IN [num |-> n \div g, den |-> d \div g]

\* api.ts:182, 185  previousMap.get(id): of two entries of one key the Map
\* keeps the later
PreviousOf(previous, id) ==
    LET at == { i \in 1 .. Len(previous) : previous[i].article = id } IN
    IF at = { } THEN None
    ELSE previous[CHOOSE i \in at : \A j \in at : j <= i]

\* api.ts:186  previous?.views || 0
PreviousViews(previous, id) ==
    IF PreviousOf(previous, id) = None THEN 0 ELSE PreviousOf(previous, id).views

\* { ...current, growth, growthPercentage, previousViews, reliability }
WithTrend(current, growth, growthPercentage, previousViews, reliability) ==
    [f \in DOMAIN current \cup { "growth", "growthPercentage", "previousViews",
                                 "reliability" } |->
        CASE f = "growth" -> growth
          [] f = "growthPercentage" -> growthPercentage
          [] f = "previousViews" -> previousViews
          [] f = "reliability" -> reliability
          [] OTHER -> current[f]]

\* a tier decided by the current views alone
ReliabilityOfViewsOnly(views, previousViews) ==
    IF views > HIGH_VIEWS THEN "high" ELSE "medium"

\* api.ts:201-202
ReliabilityOf(views, previousViews) ==
    IF views > HIGH_VIEWS /\ previousViews > HIGH_PREVIOUS THEN "high" ELSE "medium"

\* a floor that only guards the division by zero
BelowFloorZeroOnly(previousViews) == previousViews <= 0

\* api.ts:188  previousViews < 100
BelowFloor(previousViews) == previousViews < RELIABILITY_FLOOR

\* a low branch that reports the difference of the views as growth
LowGrowthAsDifference(current, previousViews) == current.views - previousViews

\* api.ts:191  growth: 0
LowGrowth(current, previousViews) == 0

\* api.ts:184-211  the callback of currentArticles.map
TrendOf(current, previous) ==
    LET previousViews == PreviousViews(previous, current.article) IN
    IF BelowFloor(previousViews)
    THEN WithTrend(current, LowGrowth(current, previousViews), Fraction(0, 1),
                   previousViews, "low")
    ELSE LET growth == current.views - previousViews IN
         WithTrend(current, growth, Fraction(growth * 100, previousViews),
                   previousViews, ReliabilityOf(current.views, previousViews))

\* a filter that lets the articles without growth through
HasGrowthOrNone(a) == a.growth >= 0

\* api.ts:214  article.growth && article.growth > 0
HasGrowth(a) == a.growth # 0 /\ a.growth > 0

\* a comparison by growth alone
TrendCompareGrowthOnly(a, b) == b.growth - a.growth

\* api.ts:215-220  the comparison of the sort
TrendCompare(a, b) ==
    IF a.reliability # b.reliability
    THEN IF a.reliability = "high" THEN 0 - 1 ELSE 1
    ELSE b.growth - a.growth

\* api.ts:215  Array.prototype.sort with the comparison: stable, x goes behind
\* the elements it does not come before
RECURSIVE InsertSorted(_, _)
InsertSorted(sorted, x) ==
    IF sorted = << >> THEN << x >>
    ELSE IF TrendCompare(x, sorted[Len(sorted)]) < 0
         THEN Append(InsertSorted(SubSeq(sorted, 1, Len(sorted) - 1), x),
                     sorted[Len(sorted)])
         ELSE Append(sorted, x)

RECURSIVE SortTrends(_)
SortTrends(arr) ==
    IF arr = << >> THEN << >>
    ELSE InsertSorted(SortTrends(SubSeq(arr, 1, Len(arr) - 1)), arr[Len(arr)])

\* api.ts:184-211  currentArticles.map(...)
TrendsOf(current, previous) ==
    [i \in 1 .. Len(current) |-> TrendOf(current[i], previous)]

\* api.ts:180-221
calculateTrendsImproved(current, previous) ==
    SortTrends(SelectSeq(TrendsOf(current, previous), HasGrowth))

\* the identifiers and the views of the snapshots the calculator is applied to
TrendIds == { << "Zurich" >>, << "Roger", "_", "Federer" >>, << "Televi", "sion" >> }

CurrentViews == { 1500, 10000, 20000 }

PastViews == { 0, 50, 100, 1000, 2000, 5000 }

InitTrend ==
    /\ FetcherInit
    /\ FilterOff
    /\ PipelineOff
    /\ ranking = MaxLen
    /\ Built
    /\ currentArticles \in RankedLists(TrendLen, TrendIds, CurrentViews)
    /\ previousArticles \in RankedLists(TrendLen, TrendIds, PastViews)
    /\ trends = << >>
    /\ trending = << >>
    /\ tpc = "start"

ComputeTrends ==
    /\ tpc = "start"
    /\ trends' = TrendsOf(currentArticles, previousArticles)
    /\ trending' = calculateTrendsImproved(currentArticles, previousArticles)
    /\ tpc' = "done"
    /\ UNCHANGED << currentArticles, previousArticles >>

NextTrend == ComputeTrends /\ UNCHANGED << fvars, pvars, ovars, evars >>

SpecTrend == InitTrend /\ [][NextTrend]_vars

(***************************************************************************)
(* fetchTopArticles, filterSwissArticlesV2, enrichArticlesWithMetadata and *)
(* getArticleMetadata: one operation of the orchestrator, run by the first *)
(* process.  Each action is the code of one function between two awaits.   *)
(***************************************************************************)
Value(v) == [kind |-> "value", val |-> v]

\* the value an await of fetchFromAPI resolves with: the decoded payload
Resolved(d) == [kind |-> "value", data |-> d]

\* the value an await of getArticleMetadata resolves with: the metadata by
\* title
Looked(m) == [kind |-> "value", byTitle |-> m]

Thrown(e) == [kind |-> "thrown", err |-> e]

Frame == stack[Len(stack)]

Pop == SubSeq(stack, 1, Len(stack) - 1)

\* the frame hands v to the frame that awaits it; the history of the returned
\* calls becomes logged
Hand(frames, v, logged) ==
    /\ stack' = frames
    /\ ret' = v
    /\ returns' = logged
    /\ UNCHANGED << fvars, asked >>

\* await fetchFromAPI(u)
Request(u) ==
    /\ Call(Main, u)
    /\ asked' = Append(asked, [url |-> u, outcome |-> "pending", data |-> None])

\* a call of fn that returned output for input, having made the requests
\* from + 1 .. Len(asked) (history)
Returned(fn, given, output, from) ==
    [fn |-> fn, input |-> given, output |-> output, from |-> from, to |-> Len(asked)]

\* api.ts:95-103
getDaysToSubtract(period) ==
    CASE period = "48h" -> 1
      [] period = "weekly" -> 1
      [] period = "monthly" -> 1
      [] OTHER -> 1

\* a comparison date that is the same for every period
PreviousDaysAlwaysTwo(period) == 2

\* api.ts:153-165  let daysToSubtract of fetchPreviousPeriodData
PreviousDays(period) ==
    CASE period = "48h" -> 3
      [] period = "weekly" -> 8
      [] period = "monthly" -> 31
      [] OTHER -> 2

\* api.ts:299, 305  decodeURIComponent(article.article).replace(/_/g, ' ')
TitleOf(a) == ReplaceUnderscores(decodeURIComponent(a.article))

\* api.ts:346-356  the record of the metadata by page title; a later page of
\* the same title overwrites an earlier one
MetadataOf(pages) ==
    [t \in { pages[i].title : i \in 1 .. Len(pages) } |->
        LET last == CHOOSE i \in 1 .. Len(pages) :
                        /\ pages[i].title = t
                        /\ \A j \in 1 .. Len(pages) : pages[j].title = t => j <= i
        IN  [description |-> "", thumbnail |-> "",
             categories |-> pages[last].categories, extract |-> ""]]

\* api.ts:359, 337  {}
NoMetadata == [t \in { } |-> None]

\* api.ts:309-317  { ...article, metadata: {...} }
WithMetadata(a, m) ==
    [f \in DOMAIN a \cup { "metadata" } |-> IF f = "metadata" THEN m ELSE a[f]]

\* an enrichment that keeps only the articles it found metadata for
EnrichBatchDropping(batch, metadata) ==
    LET found == SelectSeq(batch, LAMBDA a : TitleOf(a) \in DOMAIN metadata) IN
    [k \in 1 .. Len(found) |-> WithMetadata(found[k], metadata[TitleOf(found[k])])]

\* an enrichment that hands on the decoded title of the articles it enriched
EnrichBatchRetitling(batch, metadata) ==
    [k \in 1 .. Len(batch) |->
        IF TitleOf(batch[k]) \in DOMAIN metadata
        THEN WithMetadata([batch[k] EXCEPT !.article = TitleOf(batch[k])],
                          metadata[TitleOf(batch[k])])
        ELSE batch[k]]

\* api.ts:304-321  batch.map(...)
EnrichBatch(batch, metadata) ==
    [k \in 1 .. Len(batch) |->
        IF TitleOf(batch[k]) \in DOMAIN metadata
        THEN WithMetadata(batch[k], metadata[TitleOf(batch[k])])
        ELSE batch[k]]

\* a cap applied to the snapshot before the page filter
TopArticlesOfCapFirst(snapshot) == filterUnwantedPages(slice(snapshot, 0, RESULT_CAP))

\* api.ts:116-118  data.items[0].articles, page-filtered
TopArticlesOf(snapshot) == filterUnwantedPages(snapshot)

\* api.ts:228-241  allTerms
allTerms ==
    { << w >> : w \in
        { "zurich", "zürich", "genève", "geneva", "genf", "basel", "bâle", "bern",
          "berne", "lausanne", "winterthur", "winterthour", "lucerne", "luzern",
          "lugano", "saint-gall", "biel", "bienne", "thun", "thoune", "köniz",
          "fribourg", "freiburg", "schaffhausen", "schaffhouse", "chur", "coire",
          "sion", "sitten", "bellinzona",
          "suisse", "schweiz", "switzerland", "svizzera", "swiss", "schweizerische",
          "fédéral", "federal", "confederation", "confédération", "eidgenössische",
          "national", "bundesrat" } }
    \cup { << "sankt", " ", "gallen" >>, << "conseil", " ", "fédéral" >> }

\* api.ts:264
swissCategoryKeywords ==
    { << "suisse" >>, << "schweiz" >>, << "switzerland" >>, << "svizzera" >> }

\* api.ts:243-246  the predicate of the keyword stage
IsKeywordMatch(a) ==
    LET decodedTitle == ReplaceUnderscores(decodeURIComponent(toLowerCase(a.article))) IN
    \E term \in allTerms : includes(decodedTitle, toLowerCase(term))

\* api.ts:243  keywordFilteredArticles
KeywordFiltered(articles) == SelectSeq(articles, IsKeywordMatch)

\* api.ts:253-255  remainingArticles
Remaining(articles, keywordFilteredArticles) ==
    SelectSeq(articles, LAMBDA a :
        ~ \E k \in 1 .. Len(keywordFilteredArticles) :
              keywordFilteredArticles[k].article = a.article)

\* api.ts:266-273  the predicate of the category stage
HasSwissCategory(a) ==
    /\ "metadata" \in DOMAIN a
    /\ \E c \in 1 .. Len(a.metadata.categories) :
          \E keyword \in swissCategoryKeywords :
              includes(toLowerCase(a.metadata.categories[c]), keyword)

\* a second stage skipped one match too late
EnoughKeywordsLate(keywordFilteredArticles) == Len(keywordFilteredArticles) > KEYWORD_MIN

\* api.ts:248  keywordFilteredArticles.length >= 10
EnoughKeywords(keywordFilteredArticles) == Len(keywordFilteredArticles) >= KEYWORD_MIN

\* api.ts:296-302, 337-343  one round of the loop of the enricher up to its
\* await: the batch, its titles, and the fetch of their metadata
EnterBatch(frames, ef, logged) ==
    LET batch == slice(ef.articles, ef.i, ef.i + ENRICH_BATCH)
        titles == [k \in 1 .. Len(batch) |-> TitleOf(batch[k])]
    IN  /\ stack' = frames \o
                    << ef, [fn |-> "getArticleMetadata", titles |-> titles,
                            language |-> ef.language] >>
        /\ ret' = None
        /\ returns' = logged
        /\ Request(MetaUrl(ef.language, titles))

\* api.ts:289-294  the enricher is called
EnterEnrich(frames, articles, language, logged) ==
    IF Len(articles) = 0
    THEN Hand(frames, Value(<< >>), logged)
    ELSE EnterBatch(frames,
                    [fn |-> "enrichArticlesWithMetadata", articles |-> articles,
                     language |-> language, i |-> 0, enrichedArticles |-> << >>,
                     from |-> Len(asked)],
                    logged)

\* api.ts:260-262  one round of the loop of the relevance filter up to its
\* await, or api.ts:279 after the last round
EnterCategoryBatch(frames, sf, logged) ==
    IF sf.i < Len(sf.remainingArticles)
    THEN EnterEnrich(frames \o << sf >>,
                     slice(sf.remainingArticles, sf.i, sf.i + CATEGORY_BATCH),
                     sf.language, logged)
    ELSE Hand(frames, Value(sf.allCategoryFiltered),
              Append(logged, Returned("filterSwissArticlesV2", sf.articles,
                                      sf.allCategoryFiltered, sf.from)))

\* api.ts:226-262  the relevance filter is called: the keyword stage, and the
\* first round of the category stage when the keywords matched too few
EnterSwiss(frames, articles, language) ==
    \E keywordFilteredArticles \in { KeywordFiltered(articles) } :
    IF EnoughKeywords(keywordFilteredArticles)
    THEN Hand(frames, Value(keywordFilteredArticles),
              Append(returns, Returned("filterSwissArticlesV2", articles,
                                       keywordFilteredArticles, Len(asked))))
    ELSE \E remainingArticles \in { Remaining(articles, keywordFilteredArticles) } :
         EnterCategoryBatch(frames,
             [fn |-> "filterSwissArticlesV2", articles |-> articles,
              language |-> language,
              keywordFilteredArticles |-> keywordFilteredArticles,
              remainingArticles |-> remainingArticles,
              i |-> 0, allCategoryFiltered |-> keywordFilteredArticles,
              from |-> Len(asked)],
             returns)

\* api.ts:108-115  fetchTopArticles is called, up to its await of the snapshot
EnterTop(frames, language, period, swissOnly) ==
    /\ stack' = frames \o << [fn |-> "fetchTopArticles", language |-> language,
                              swissOnly |-> swissOnly, at |-> "data"] >>
    /\ ret' = None
    /\ UNCHANGED returns
    /\ Request(TopUrl(language, getDaysToSubtract(period)))

\* api.ts:124-129  fetchTopArticles from the articles to the enricher
TopRest(frames, f, articles) ==
    IF Len(articles) > 0
    THEN EnterEnrich(frames \o << [f EXCEPT !.at = "enrich"] >>, articles,
                     f.language, returns)
    ELSE Hand(frames, Value(slice(articles, 0, RESULT_CAP)), returns)

\* fetchTopArticles(language, period, swissOnly) is called
TopStart(language, period, swissOnly) ==
    /\ stack = << >>
    /\ ret = None
    /\ req' = [language |-> language, swissOnly |-> swissOnly]
    /\ EnterTop(<< >>, language, period, swissOnly)
    /\ UNCHANGED snap

\* api.ts:21, 48, 61  fetchFromAPI settles the await of the innermost frame
FetchSettles ==
    /\ stack # << >>
    /\ ret = None
    /\ pc[Main] \in { "returned", "threw" }
    /\ ret' = IF pc[Main] = "returned" THEN Resolved(result[Main])
              ELSE Thrown(result[Main])
    /\ asked' = [asked EXCEPT ![Len(asked)] =
                    [url |-> @.url,
                     outcome |-> IF pc[Main] = "threw" THEN "failed"
                                 ELSE IF hit[Main] THEN "hit" ELSE "fetched",
                     data |-> result[Main]]]
    /\ Finish(Main)
    /\ UNCHANGED << stack, req, snap, returns >>

\* api.ts:115-122  fetchTopArticles from the snapshot to the relevance filter
\* or on; an error of the fetch is not caught here
TopData ==
    /\ stack # << >>
    /\ Frame.fn = "fetchTopArticles"
    /\ Frame.at = "data"
    /\ ret # None
    /\ IF ret.kind = "thrown"
       THEN /\ Hand(Pop, ret, returns)
            /\ UNCHANGED snap
       ELSE \E articles \in { TopArticlesOf(ret.data.body) } :
            /\ snap' = ret.data.body
            /\ IF Frame.swissOnly
               THEN EnterSwiss(Pop \o << [Frame EXCEPT !.at = "swiss"] >>, articles,
                               Frame.language)
               ELSE TopRest(Pop, Frame, articles)
    /\ UNCHANGED req

\* api.ts:121-129  fetchTopArticles from the relevance filter on
TopSwissDone ==
    /\ stack # << >>
    /\ Frame.fn = "fetchTopArticles"
    /\ Frame.at = "swiss"
    /\ ret # None
    /\ IF ret.kind = "thrown"
       THEN Hand(Pop, ret, returns)
       ELSE TopRest(Pop, Frame, ret.val)
    /\ UNCHANGED << req, snap >>

\* api.ts:342-360  getArticleMetadata after its await: the metadata of the
\* pages, or {} when the fetch threw
MetaDone ==
    /\ stack # << >>
    /\ Frame.fn = "getArticleMetadata"
    /\ ret # None
    /\ Hand(Pop, Looked(IF ret.kind = "value" THEN MetadataOf(ret.data.body)
                        ELSE NoMetadata),
            returns)
    /\ UNCHANGED << req, snap >>

\* api.ts:302-330  the enricher after its await: the batch enriched, then the
\* next batch or the return
EnrichBatchDone ==
    /\ stack # << >>
    /\ Frame.fn = "enrichArticlesWithMetadata"
    /\ ret # None
    /\ IF ret.kind = "thrown"
       THEN Hand(Pop, Value(Frame.articles),
                 Append(returns, Returned("enrichArticlesWithMetadata", Frame.articles,
                                          Frame.articles, Frame.from)))
       ELSE LET batch == slice(Frame.articles, Frame.i, Frame.i + ENRICH_BATCH)
                enrichedArticles == Frame.enrichedArticles \o EnrichBatch(batch, ret.byTitle)
                i == Frame.i + ENRICH_BATCH
            IN  IF i < Len(Frame.articles)
                THEN EnterBatch(Pop, [Frame EXCEPT !.i = i,
                                            !.enrichedArticles = enrichedArticles],
                                returns)
                ELSE Hand(Pop, Value(enrichedArticles),
                          Append(returns,
                                 Returned("enrichArticlesWithMetadata", Frame.articles,
                                          enrichedArticles, Frame.from)))
    /\ UNCHANGED << req, snap >>

\* api.ts:262-283  the relevance filter after its await: the category matches
\* of the batch, then the next batch or the return
SwissBatchDone ==
    /\ stack # << >>
    /\ Frame.fn = "filterSwissArticlesV2"
    /\ ret # None
    /\ IF ret.kind = "thrown"
       THEN Hand(Pop, Value(Frame.keywordFilteredArticles),
                 Append(returns, Returned("filterSwissArticlesV2", Frame.articles,
                                          Frame.keywordFilteredArticles, Frame.from)))
       ELSE LET categoryFiltered == SelectSeq(ret.val, HasSwissCategory)
                allCategoryFiltered == Frame.allCategoryFiltered \o categoryFiltered
            IN  IF Len(allCategoryFiltered) >= CATEGORY_STOP
                THEN Hand(Pop, Value(allCategoryFiltered),
                          Append(returns,
                                 Returned("filterSwissArticlesV2", Frame.articles,
                                          allCategoryFiltered, Frame.from)))
                ELSE EnterCategoryBatch(Pop,
                         [Frame EXCEPT !.i = @ + CATEGORY_BATCH,
                                       !.allCategoryFiltered = allCategoryFiltered],
                         returns)
    /\ UNCHANGED << req, snap >>

\* api.ts:125-126  return enrichedArticles.slice(0, 50)
TopEnriched ==
    /\ stack # << >>
    /\ Frame.fn = "fetchTopArticles"
    /\ Frame.at = "enrich"
    /\ ret # None
    /\ Hand(Pop, IF ret.kind = "thrown" THEN ret
                 ELSE Value(slice(ret.val, 0, RESULT_CAP)),
            returns)
    /\ UNCHANGED << req, snap >>

\* a step A of one operation of the orchestrator
InTop(A) ==
    /\ A
    /\ calls' <= TopCalls
    /\ UNCHANGED << pvars, tvars, evars >>

\* a step A of the fetcher inside the operation
Inner(A) == InTop(A /\ UNCHANGED ovars)

\* one call of fetchTopArticles, from the state after construction
NextTop ==
    \/ \E language \in Languages, period \in Periods, swissOnly \in BOOLEAN :
          InTop(TopStart(language, period, swissOnly))
    \/ Inner(FetchReject(Main))
    \/ Inner(FetchStatus(Main))
    \/ Inner(FetchOk(Main))
    \/ Inner(JsonReject(Main))
    \/ Inner(JsonOk(Main))
    \/ Inner(TimerFire(Main))
    \/ InTop(FetchSettles)
    \/ InTop(TopData)
    \/ InTop(TopSwissDone)
    \/ InTop(SwissBatchDone)
    \/ InTop(MetaDone)
    \/ InTop(EnrichBatchDone)
    \/ InTop(TopEnriched)

SpecTop == Init /\ [][NextTop]_vars

(***************************************************************************)
(* filterSwissArticlesV2 called on every list of at most MaxLen articles.   *)
(***************************************************************************)
\* the identifiers of the lists: two that match a keyword, one of them in the
\* middle of a word, and three that do not
SwissIds ==
    { << "Zurich" >>,
      << "Televi", "sion" >>,
      << "Roger", "_", "Federer" >>,
      << "Matterhorn" >>,
      << "HTTP", "%20", "cookie" >> }

\* the metadata of a page in a Swiss category, as the enricher attaches it
SwissMetadata ==
    [description |-> "", thumbnail |-> "",
     categories |-> << << "Category", ":", "Cities", " ", "in", " ", "Switzerland" >> >>,
     extract |-> ""]

\* the articles of the lists: as fetchTopArticles hands them on, api.ts:121,
\* and one as fetchTrendingArticles does, api.ts:136-142, enriched before
SwissArticles ==
    { Ranked(id, v) : id \in SwissIds, v \in LatestViews }
    \cup { WithMetadata(Ranked(<< "Matterhorn" >>, v), SwissMetadata) : v \in LatestViews }

\* the lists of at most n of the articles A: identifiers unique within one
RECURSIVE UniqueLists(_, _)
UniqueLists(n, A) ==
    IF n = 0 THEN { << >> }
    ELSE LET shorter == UniqueLists(n - 1, A) IN
         shorter \cup
         { Append(q[1], q[2]) :
             q \in { r \in shorter \X A :
                       /\ Len(r[1]) = n - 1
                       /\ \A i \in 1 .. Len(r[1]) : r[1][i].article # r[2].article } }

\* filterSwissArticlesV2(articles, language) is called
SwissStart(articles, language) ==
    /\ stack = << >>
    /\ ret = None
    /\ req' = [language |-> language, swissOnly |-> TRUE]
    /\ EnterSwiss(<< >>, articles, language)
    /\ UNCHANGED snap

\* a step A of one call of the relevance filter
InSwiss(A) ==
    /\ A
    /\ calls' <= SwissCalls
    /\ UNCHANGED << pvars, tvars, evars >>

\* one call of filterSwissArticlesV2, from the state after construction
NextSwiss ==
    \/ \E articles \in UniqueLists(MaxLen, SwissArticles) :
          InSwiss(SwissStart(articles, "de"))
    \/ InSwiss(FetchReject(Main) /\ UNCHANGED ovars)
    \/ InSwiss(FetchStatus(Main) /\ UNCHANGED ovars)
    \/ InSwiss(FetchOk(Main) /\ UNCHANGED ovars)
    \/ InSwiss(JsonReject(Main) /\ UNCHANGED ovars)
    \/ InSwiss(JsonOk(Main) /\ UNCHANGED ovars)
    \/ InSwiss(TimerFire(Main) /\ UNCHANGED ovars)
    \/ InSwiss(FetchSettles)
    \/ InSwiss(MetaDone)
    \/ InSwiss(EnrichBatchDone)
    \/ InSwiss(SwissBatchDone)

SpecSwiss == Init /\ [][NextSwiss]_vars

(***************************************************************************)
(* fetchTrendingArticles and fetchPreviousPeriodData, api.ts:135-175.       *)
(***************************************************************************)
\* a current snapshot that goes through the relevance filter when the result
\* is asked for Swiss articles only
CurrentSwissOnlyAsAsked(swissOnly) == swissOnly

\* api.ts:136  the third argument of fetchTopArticles(language, period, false)
CurrentSwissOnly(swissOnly) == FALSE

\* fetchTrendingArticles(language, period, swissOnly) is called, up to its
\* await of fetchTopArticles
TrendingStart(language, period, swissOnly) ==
    /\ stack = << >>
    /\ ret = None
    /\ req' = [language |-> language, period |-> period, swissOnly |-> swissOnly]
    /\ EnterTop(<< [fn |-> "fetchTrendingArticles", language |-> language,
                    period |-> period, swissOnly |-> swissOnly, at |-> "current",
                    currentData |-> << >>] >>,
                language, period, CurrentSwissOnly(swissOnly))
    /\ UNCHANGED snap

\* api.ts:136-137, 151-171  fetchTrendingArticles from the current data to
\* the await of the previous snapshot; an error is not caught here
TrendingCurrent ==
    /\ stack # << >>
    /\ Frame.fn = "fetchTrendingArticles"
    /\ Frame.at = "current"
    /\ ret # None
    /\ IF ret.kind = "thrown"
       THEN Hand(Pop, ret, returns)
       ELSE /\ stack' = Pop \o
                        << [Frame EXCEPT !.at = "previous", !.currentData = ret.val],
                           [fn |-> "fetchPreviousPeriodData",
                            language |-> Frame.language] >>
            /\ ret' = None
            /\ UNCHANGED returns
            /\ Request(TopUrl(Frame.language, PreviousDays(Frame.period)))
    /\ UNCHANGED << req, snap >>

\* api.ts:171-174  fetchPreviousPeriodData after its await; an error of the
\* fetch is not caught here
PreviousData ==
    /\ stack # << >>
    /\ Frame.fn = "fetchPreviousPeriodData"
    /\ ret # None
    /\ Hand(Pop, IF ret.kind = "thrown" THEN ret
                 ELSE Value(filterUnwantedPages(ret.data.body)),
            returns)
    /\ UNCHANGED << req, snap >>

\* api.ts:137-145  fetchTrendingArticles from the previous data to the
\* relevance filter or its return
TrendingPrevious ==
    /\ stack # << >>
    /\ Frame.fn = "fetchTrendingArticles"
    /\ Frame.at = "previous"
    /\ ret # None
    /\ IF ret.kind = "thrown"
       THEN Hand(Pop, ret, returns)
       ELSE \E trendingArticles \in { calculateTrendsImproved(Frame.currentData, ret.val) } :
            IF Frame.swissOnly
            THEN EnterSwiss(Pop \o << [Frame EXCEPT !.at = "swiss"] >>,
                            trendingArticles, Frame.language)
            ELSE Hand(Pop, Value(slice(trendingArticles, 0, RESULT_CAP)), returns)
    /\ UNCHANGED << req, snap >>

\* api.ts:142-145  return trendingArticles.slice(0, 50)
TrendingSwissDone ==
    /\ stack # << >>
    /\ Frame.fn = "fetchTrendingArticles"
    /\ Frame.at = "swiss"
    /\ ret # None
    /\ Hand(Pop, IF ret.kind = "thrown" THEN ret
                 ELSE Value(slice(ret.val, 0, RESULT_CAP)),
            returns)
    /\ UNCHANGED << req, snap >>

\* a step A of one call of fetchTrendingArticles
InTrending(A) ==
    /\ A
    /\ calls' <= TrendingCalls
    /\ UNCHANGED << pvars, tvars, evars >>

InitTrending == FetcherInit /\ FilterOff /\ PipelineOff /\ TrendOff /\ ranking = TrendLen /\ Built

\* one call of fetchTrendingArticles, from the state after construction
NextTrending ==
    \/ \E period \in Periods, swissOnly \in BOOLEAN :
          InTrending(TrendingStart("fr", period, swissOnly))
    \/ InTrending(FetchReject(Main) /\ UNCHANGED ovars)
    \/ InTrending(FetchStatus(Main) /\ UNCHANGED ovars)
    \/ InTrending(FetchOk(Main) /\ UNCHANGED ovars)
    \/ InTrending(JsonReject(Main) /\ UNCHANGED ovars)
    \/ InTrending(JsonOk(Main) /\ UNCHANGED ovars)
    \/ InTrending(TimerFire(Main) /\ UNCHANGED ovars)
    \/ InTrending(FetchSettles)
    \/ InTrending(TopData)
    \/ InTrending(TopEnriched)
    \/ InTrending(TrendingCurrent)
    \/ InTrending(PreviousData)
    \/ InTrending(TrendingPrevious)
    \/ InTrending(TrendingSwissDone)
    \/ InTrending(SwissBatchDone)
    \/ InTrending(MetaDone)
    \/ InTrending(EnrichBatchDone)

SpecTrending == InitTrending /\ [][NextTrending]_vars

\* a step A of one call of fetchTrendingArticles on short snapshots
InDates(A) ==
    /\ A
    /\ calls' <= DatesCalls
    /\ UNCHANGED << pvars, tvars, evars >>

InitDates == FetcherInit /\ FilterOff /\ PipelineOff /\ TrendOff /\ ranking = DatesLen /\ Built

\* one call of fetchTrendingArticles for every period, from the state after
\* construction, the upstream ranking short snapshots
NextDates ==
    \/ \E period \in Periods, swissOnly \in BOOLEAN :
          InDates(TrendingStart("fr", period, swissOnly))
    \/ InDates(FetchReject(Main) /\ UNCHANGED ovars)
    \/ InDates(FetchStatus(Main) /\ UNCHANGED ovars)
    \/ InDates(FetchOk(Main) /\ UNCHANGED ovars)
    \/ InDates(JsonReject(Main) /\ UNCHANGED ovars)
    \/ InDates(JsonOk(Main) /\ UNCHANGED ovars)
    \/ InDates(TimerFire(Main) /\ UNCHANGED ovars)
    \/ InDates(FetchSettles)
    \/ InDates(TopData)
    \/ InDates(TopEnriched)
    \/ InDates(TrendingCurrent)
    \/ InDates(PreviousData)
    \/ InDates(TrendingPrevious)
    \/ InDates(TrendingSwissDone)
    \/ InDates(SwissBatchDone)
    \/ InDates(MetaDone)
    \/ InDates(EnrichBatchDone)

SpecDates == InitDates /\ [][NextDates]_vars

(***************************************************************************)
(* One operation followed to its end, whatever number of remote calls it    *)
(* takes: every remote call responds or fails, every timer fires, and every *)
(* continuation that can run does.  Each such step moves the invocation of  *)
(* fetchFromAPI or the stack of frames.                                     *)
(***************************************************************************)
\* a step A of an operation followed to its end
Live(A) == A /\ UNCHANGED << pvars, tvars, evars >>

InitLive == FetcherInit /\ FilterOff /\ PipelineOff /\ TrendOff /\ ranking = LiveLen /\ Built

\* api.ts:31  the pending fetch settles
Responds ==
    \/ FetchReject(Main) /\ UNCHANGED ovars
    \/ FetchStatus(Main) /\ UNCHANGED ovars
    \/ FetchOk(Main) /\ UNCHANGED ovars

\* api.ts:39  the pending response.json() settles
Parses ==
    \/ JsonReject(Main) /\ UNCHANGED ovars
    \/ JsonOk(Main) /\ UNCHANGED ovars

\* api.ts:55  the pending timer fires
Fires == TimerFire(Main) /\ UNCHANGED ovars

\* the continuation of a settled await runs
Continues ==
    \/ FetchSettles
    \/ TopData
    \/ TopSwissDone
    \/ TopEnriched
    \/ TrendingCurrent
    \/ PreviousData
    \/ TrendingPrevious
    \/ TrendingSwissDone
    \/ SwissBatchDone
    \/ MetaDone
    \/ EnrichBatchDone

\* one call of fetchTopArticles or of fetchTrendingArticles, from the state
\* after construction
NextLive ==
    \/ \E swissOnly \in BOOLEAN : Live(TopStart("fr", "daily", swissOnly))
    \/ \E swissOnly \in BOOLEAN : Live(TrendingStart("fr", "daily", swissOnly))
    \/ Live(FetchReject(Main) /\ UNCHANGED ovars)
    \/ Live(FetchStatus(Main) /\ UNCHANGED ovars)
    \/ Live(FetchOk(Main) /\ UNCHANGED ovars)
    \/ Live(JsonReject(Main) /\ UNCHANGED ovars)
    \/ Live(JsonOk(Main) /\ UNCHANGED ovars)
    \/ Live(TimerFire(Main) /\ UNCHANGED ovars)
    \/ Live(FetchSettles)
    \/ Live(TopData)
    \/ Live(TopSwissDone)
    \/ Live(TopEnriched)
    \/ Live(TrendingCurrent)
    \/ Live(PreviousData)
    \/ Live(TrendingPrevious)
    \/ Live(TrendingSwissDone)
    \/ Live(SwissBatchDone)
    \/ Live(MetaDone)
    \/ Live(EnrichBatchDone)

SpecLive ==
    /\ InitLive
    /\ [][NextLive]_vars
    /\ WF_pc(Live(Responds))
    /\ WF_pc(Live(Parses))
    /\ WF_pc(Live(Fires))
    /\ WF_<< pc, stack >>(Live(Continues))


(***************************************************************************)
(* The response cache and the fetcher: claims.                             *)
(***************************************************************************)
Distinct(q) == \A i, j \in 1 .. Len(q) : i # j => q[i] # q[j]

\* the entry of the cache an invocation reads or writes
EntryOf(p) == MapGet(cache, CacheKey(url[p]))

\* C2: in every reachable state the response cache holds at most
\* MAX_CACHE_SIZE entries, whatever calls succeeded, failed, hit or refreshed.
C2_CacheBounded == Len(cache) <= MAX_CACHE_SIZE

\* a full cache that an insert has already evicted from
C2_Witness == Len(cache) = MAX_CACHE_SIZE /\ Len(evicted) > 0

\* C3: from the empty cache, once MAX_CACHE_SIZE + 1 distinct keys have been
\* inserted, exactly one entry has been evicted, it is the first-inserted key,
\* and the other MAX_CACHE_SIZE keys are present, in their insertion order.
C3_FifoEviction ==
    (Len(log) = MAX_CACHE_SIZE + 1 /\ Distinct(log)) =>
        /\ evicted = << log[1] >>
        /\ Len(cache) = MAX_CACHE_SIZE
        /\ \A i \in 1 .. MAX_CACHE_SIZE : cache[i].key = log[i + 1]

\* the N+1-th distinct key has just been inserted
C3_Witness ==
    /\ Len(log) = MAX_CACHE_SIZE + 1
    /\ Distinct(log)
    /\ ~ MapHas(cache, log[1])

\* C4: a call for a key whose entry is older than the TTL is a miss: it
\* issues a remote call, returns nothing from the cache, leaves the stale
\* entry in place, and what it later returns is the body of a remote call of
\* its own, made after the stale body was.
C4_StaleIsMiss ==
    [][ \A p \in Procs :
          /\ ( /\ pc[p] = "idle"
               /\ pc'[p] # "idle"
               /\ MapHas(cache, CacheKey(url'[p]))
               /\ clock - MapGet(cache, CacheKey(url'[p])).timestamp > CACHE_TTL )
             => /\ pc'[p] = "fetch"
                /\ calls' = calls + 1
                /\ result'[p] = None
                /\ hit'[p] = FALSE
                /\ cache' = cache
                /\ MapGet(cache, CacheKey(url'[p])).data.call < serial'[p]
          /\ (pc[p] = "json" /\ pc'[p] = "returned")
             => /\ result'[p].kind = "payload"
                /\ result'[p].for = url[p]
                /\ result'[p].call = serial[p] ]_vars

\* an invocation in flight for a key whose stale entry is still in the cache
C4_Witness ==
    \E p \in Procs :
        /\ pc[p] = "json"
        /\ MapHas(cache, CacheKey(url[p]))
        /\ now[p] - EntryOf(p).timestamp > CACHE_TTL

\* C5: on a miss an invocation makes at most 3 remote attempts, each after
\* the failure of the one before; it stops at the first success; and after
\* 3 failures it throws the error of the third attempt.
C5_BoundedRetries ==
    \A p \in Procs :
        /\ attempts[p] <= INITIAL_RETRIES
        /\ pc[p] \in { "fetch", "json" } =>
              /\ attempts[p] = INITIAL_RETRIES - retries[p] + 1
              /\ attempts[p] = 1 => lastError[p] = None
              /\ attempts[p] > 1 => lastError[p].attempt = attempts[p] - 1
        /\ pc[p] = "sleep" =>
              /\ attempts[p] = INITIAL_RETRIES - retries[p]
              /\ attempts[p] < INITIAL_RETRIES
              /\ lastError[p].attempt = attempts[p]
        /\ pc[p] = "threw" =>
              /\ attempts[p] = INITIAL_RETRIES
              /\ result[p] = lastError[p]
              /\ result[p].kind = "error"
              /\ result[p].attempt = INITIAL_RETRIES
        /\ (pc[p] = "returned" /\ ~ hit[p]) =>
              /\ attempts[p] >= 1
              /\ result[p].kind = "payload"
              /\ result[p].call = serial[p]
              /\ attempts[p] = 1 => lastError[p] = None
              /\ attempts[p] > 1 => lastError[p].attempt = attempts[p] - 1
        /\ (pc[p] = "returned" /\ hit[p]) => attempts[p] = 0

\* an invocation has thrown after three failed attempts
C5_Witness ==
    \E p \in Procs :
        /\ pc[p] = "threw"
        /\ attempts[p] = 3
        /\ Len(waited[p]) = 2

\* C6: every entry stored under a key holds a body a remote call made for
\* that key returned, and an invocation that succeeds on a miss has stored
\* the body it returns under its own url when it returns.
C6_EntriesOwnKey ==
    [][ /\ \A i \in 1 .. Len(cache') :
              /\ cache'[i].data.kind = "payload"
              /\ cache'[i].data.for = cache'[i].key
              /\ cache'[i].data.call \in 1 .. calls'
        /\ \A p \in Procs :
              (pc[p] = "json" /\ pc'[p] = "returned") =>
                  /\ MapHas(cache', url[p])
                  /\ MapGet(cache', url[p]).data = result'[p]
                  /\ result'[p].for = url[p] ]_vars

\* two entries for two urls, one of them just stored by a returning miss
C6_Witness ==
    /\ Len(cache) = 2
    /\ \E p \in Procs :
          /\ pc[p] = "returned"
          /\ ~ hit[p]
          /\ url[p].id = 2
          /\ MapGet(cache, url[p]).data = result[p]

\* C7: under any interleaving of concurrent invocations the cache stays
\* within its capacity, holds one entry per key, every entry holds a body made
\* for its own key, and every invocation that returns, from the cache or from
\* the remote, returns a body made for its own url.
C7_ConcurrentSafe ==
    /\ Len(cache) <= MAX_CACHE_SIZE
    /\ Cardinality(MapKeys(cache)) = Len(cache)
    /\ \A i \in 1 .. Len(cache) :
          /\ cache[i].data.kind = "payload"
          /\ cache[i].data.for = cache[i].key
    /\ \A p \in Procs :
          pc[p] = "returned" =>
              /\ result[p].kind = "payload"
              /\ result[p].for = url[p]

\* two concurrent invocations for the same url have each made their own
\* remote call and returned its body; the cache holds the later body
C7_Witness ==
    /\ Len(cache) = 1
    /\ \E p, q \in Procs :
          /\ p # q
          /\ url[p] = url[q]
          /\ pc[p] = "returned" /\ pc[q] = "returned"
          /\ ~ hit[p] /\ ~ hit[q]
          /\ result[p] # result[q]
          /\ cache[1].data = result[q]

(***************************************************************************)
(* The page filter: claims.                                                *)
(***************************************************************************)
\* a is b with some elements left out, the others in b's order
RECURSIVE IsSubsequence(_, _)
IsSubsequence(a, b) ==
    IF a = << >> THEN TRUE
    ELSE IF b = << >> THEN FALSE
    ELSE IF Head(a) = Head(b) THEN IsSubsequence(Tail(a), Tail(b))
    ELSE IsSubsequence(a, Tail(b))

\* C9: the page filter is idempotent, and its result is an order-preserving
\* subsequence of its argument.
C9_FilterIdempotent ==
    /\ fpc \in { "once", "twice" } => IsSubsequence(once, input)
    /\ fpc = "twice" => twice = once

\* the filter has run twice on a list it removes from and keeps from
C9_Witness ==
    /\ fpc = "twice"
    /\ Len(once) >= 2
    /\ Len(once) < Len(input)

\* the title compared in decoded, space-normalized form
NormalizedTitle(id) == ReplaceUnderscores(decodeURIComponent(id))

\* C10: for every article that survives the page filter, the decoded,
\* space-normalized title starts with no unwanted prefix and equals no
\* unwanted page title, underscores and spaces being the same character.
C10_SurvivorsNotUnwanted ==
    fpc \in { "once", "twice" } =>
        \A i \in 1 .. Len(once) :
            LET title == NormalizedTitle(once[i].article) IN
            /\ \A prefix \in unwantedPrefixes :
                  ~ startsWith(title, ReplaceUnderscores(prefix))
            /\ \A page \in unwantedPages : title # ReplaceUnderscores(page)

(***************************************************************************)
(* The trend calculator: claims.                                            *)
(***************************************************************************)
\* the views of the identifier in the previous snapshot, 0 when it is absent
PastViewsOf(id) ==
    IF \E j \in 1 .. Len(previousArticles) : previousArticles[j].article = id
    THEN LET j == CHOOSE k \in 1 .. Len(previousArticles) :
                      previousArticles[k].article = id
         IN  previousArticles[j].views
    ELSE 0

\* C11: every article in the output of the trend calculator has growth
\* strictly greater than 0, and every output identifier is an identifier of
\* the current snapshot.
C11_OutputGrowsAndIsCurrent ==
    tpc = "done" =>
        \A i \in 1 .. Len(trending) :
            /\ trending[i].growth > 0
            /\ \E j \in 1 .. Len(currentArticles) :
                  currentArticles[j].article = trending[i].article

\* an output that kept one article and left out one whose views fell
C11_Witness ==
    /\ tpc = "done"
    /\ Len(trending) = 1
    /\ \E i \in 1 .. Len(trends) : trends[i].growth < 0

\* C12: in the output every article of reliability high precedes every
\* article of reliability medium or low, even when the latter has the larger
\* growth, and within one tier the growth does not increase.
C12_HighFirstThenGrowth ==
    tpc = "done" =>
        \A i, j \in 1 .. Len(trending) :
            i < j =>
                /\ trending[j].reliability = "high" => trending[i].reliability = "high"
                /\ trending[i].reliability = trending[j].reliability =>
                      trending[i].growth >= trending[j].growth

\* an output of a high article followed by a medium one of larger growth
C12_Witness ==
    /\ tpc = "done"
    /\ Len(trending) >= 2
    /\ trending[1].reliability = "high"
    /\ trending[2].reliability = "medium"
    /\ trending[2].growth > trending[1].growth
    /\ currentArticles[1].article = trending[2].article

\* C13: a current article whose identifier is absent from the previous
\* snapshot gets previousViews = 0, reliability low and growth 0, and an
\* article whose previous views are below 100 gets the same low and 0.
C13_LowBelowFloor ==
    tpc = "done" =>
        /\ Len(trends) = Len(currentArticles)
        /\ \A i \in 1 .. Len(trends) :
              LET id == currentArticles[i].article IN
              /\ trends[i].article = id
              /\ (\A j \in 1 .. Len(previousArticles) : previousArticles[j].article # id)
                     => trends[i].previousViews = 0
              /\ PastViewsOf(id) < 100 =>
                     /\ trends[i].previousViews = PastViewsOf(id)
                     /\ trends[i].reliability = "low"
                     /\ trends[i].growth = 0
                     /\ trends[i].growthPercentage.num = 0

\* one current article absent from the previous snapshot and one with 50
\* previous views
C13_Witness ==
    /\ tpc = "done"
    /\ Len(trends) = 2
    /\ \A j \in 1 .. Len(previousArticles) :
          previousArticles[j].article # currentArticles[1].article
    /\ trends[2].previousViews = 50

\* C14: a current article with previous views p >= 100 gets growth =
\* views - p and growthPercentage = growth / p * 100 (p = 1000 and views =
\* 1500 give 500 and 50), and reliability high exactly when views > 10000
\* and p > 1000, medium otherwise.
C14_GrowthAndTier ==
    tpc = "done" =>
        \A i \in 1 .. Len(trends) :
            LET v == currentArticles[i].views
                p == PastViewsOf(currentArticles[i].article)
                t == trends[i]
            IN  p >= 100 =>
                    /\ t.views = v
                    /\ t.previousViews = p
                    /\ t.growth = v - p
                    /\ t.growthPercentage.den > 0
                    /\ t.growthPercentage.num * p = (v - p) * 100 * t.growthPercentage.den
                    /\ (v = 1500 /\ p = 1000) =>
                           /\ t.growth = 500
                           /\ t.growthPercentage = [num |-> 50, den |-> 1]
                    /\ t.reliability = "high" <=> (v > 10000 /\ p > 1000)
                    /\ t.reliability # "high" => t.reliability = "medium"

\* the example of 1000 and 1500 views next to an article of reliability high
C14_Witness ==
    /\ tpc = "done"
    /\ Len(trends) = 2
    /\ trends[1].views = 1500 /\ trends[1].previousViews = 1000
    /\ trends[1].reliability = "medium"
    /\ trends[2].reliability = "high"

(***************************************************************************)
(* The orchestrator: claims.                                               *)
(***************************************************************************)
\* the operation has handed its result, or its error, to its caller
Completed == stack = << >> /\ ret # None

IdsOf(articles) == [i \in 1 .. Len(articles) |-> articles[i].article]

\* C1: fetchTopArticles and fetchTrendingArticles never propagate a failure:
\* when the snapshot fetch fails after all retries the operation completes
\* normally and returns the empty list.
C1_NeverPropagates ==
    Completed => /\ ret.kind = "value"
                 /\ snap = << >> => ret.val = << >>

\* C8: with swissOnly = false and the snapshot fetched, fetchTopArticles
\* returns the first RESULT_CAP articles of the page-filtered snapshot: at
\* most RESULT_CAP articles, none unwanted, in the order of the snapshot,
\* whether or not the metadata was fetched.
C8_TopIsCappedFilteredSnapshot ==
    (Completed /\ ret.kind = "value" /\ ~ req.swissOnly) =>
        /\ Len(ret.val) <= RESULT_CAP
        /\ \A i \in 1 .. Len(ret.val) : ~ IsUnwanted(ret.val[i].article)
        /\ IsSubsequence(IdsOf(ret.val), IdsOf(snap))
        /\ IdsOf(ret.val) = IdsOf(slice(filterUnwantedPages(snap), 0, RESULT_CAP))

\* a snapshot with an unwanted page and more than RESULT_CAP wanted ones has
\* been answered, some of it with metadata and some without
C8_Witness ==
    /\ Completed
    /\ ret.kind = "value"
    /\ ~ req.swissOnly
    /\ Len(ret.val) = RESULT_CAP
    /\ Len(filterUnwantedPages(snap)) > RESULT_CAP
    /\ Len(snap) > Len(filterUnwantedPages(snap))
    /\ \E i, j \in 1 .. Len(ret.val) :
          /\ "metadata" \in DOMAIN ret.val[i]
          /\ "metadata" \notin DOMAIN ret.val[j]

(***************************************************************************)
(* The relevance filter and the enricher: claims.                           *)
(***************************************************************************)
\* the calls of fn that have returned
ReturnsOf(fn) == { i \in 1 .. Len(returns) : returns[i].fn = fn }

\* the requests a returned call made
RequestsOf(r) == r.from + 1 .. r.to

\* the articles of the list that match a keyword, in the order of the list
KeywordMatched(articles) == SelectSeq(articles, IsKeywordMatch)

\* C15: when at least KEYWORD_MIN articles of the input match a keyword, the
\* relevance filter returns exactly the keyword-matched articles, in the
\* order of the input, and makes no request and no call of the enricher.
C15_KeywordsShortCircuit ==
    \A i \in ReturnsOf("filterSwissArticlesV2") :
        LET r == returns[i] IN
        Len(KeywordMatched(r.input)) >= KEYWORD_MIN =>
            /\ r.output = KeywordMatched(r.input)
            /\ IsSubsequence(r.output, r.input)
            /\ RequestsOf(r) = { }
            /\ asked = << >>
            /\ calls = 0
            /\ ReturnsOf("enrichArticlesWithMetadata") = { }

\* the filter has returned the KEYWORD_MIN keyword matches of a list that
\* also holds an article in a Swiss category
C15_Witness ==
    /\ Completed
    /\ \E i \in ReturnsOf("filterSwissArticlesV2") :
          /\ Len(returns[i].output) = KEYWORD_MIN
          /\ Len(returns[i].input) > KEYWORD_MIN
          /\ \E k \in 1 .. Len(returns[i].input) : HasSwissCategory(returns[i].input[k])
          /\ ret = Value(returns[i].output)

\* C16: when fewer than KEYWORD_MIN articles match a keyword and every
\* metadata fetch of the second stage fails, the relevance filter returns
\* exactly the keyword-matched articles, not an empty list when there is one.
C16_DegradesToKeywords ==
    \A i \in ReturnsOf("filterSwissArticlesV2") :
        LET r == returns[i] IN
        ( /\ Len(KeywordMatched(r.input)) < KEYWORD_MIN
          /\ RequestsOf(r) # { }
          /\ \A k \in RequestsOf(r) : asked[k].outcome = "failed" )
        => /\ r.output = KeywordMatched(r.input)
           /\ KeywordMatched(r.input) # << >> => r.output # << >>

\* C17: the identifiers of the output of the relevance filter are in the
\* order they have in its input, also when the second stage added articles.
C17_KeepsRankOrder ==
    \A i \in ReturnsOf("filterSwissArticlesV2") :
        IsSubsequence(IdsOf(returns[i].output), IdsOf(returns[i].input))

\* C18: the enricher returns a list, and when the metadata fetch of one of
\* its batches failed, the list it returns is its argument, unmodified.
C18_FailureReturnsOriginal ==
    \A i \in ReturnsOf("enrichArticlesWithMetadata") :
        LET r == returns[i] IN
        /\ Len(r.output) = Len(r.input)
        /\ (\E k \in RequestsOf(r) : asked[k].outcome = "failed") => r.output = r.input

\* the titles of the pages the k-th request of the operation was answered with
TitlesAnswered(k) ==
    IF asked[k].outcome = "failed" THEN { }
    ELSE { asked[k].data.body[j].title : j \in 1 .. Len(asked[k].data.body) }

\* C19: the enricher returns a list of the length of its argument, with the
\* same identifiers and views in the same order; an article whose decoded
\* title is not among the pages of the response for its batch is returned
\* unchanged.
C19_EnricherKeepsArticles ==
    \A i \in ReturnsOf("enrichArticlesWithMetadata") :
        LET r == returns[i] IN
        /\ Len(r.output) = Len(r.input)
        /\ \A k \in 1 .. Len(r.input) :
              LET batch == r.from + ((k - 1) \div ENRICH_BATCH) + 1
                  title == ReplaceUnderscores(decodeURIComponent(r.input[k].article))
              IN  /\ batch \in RequestsOf(r)
                  /\ \A f \in DOMAIN r.input[k] :
                        f # "metadata" => /\ f \in DOMAIN r.output[k]
                                          /\ r.output[k][f] = r.input[k][f]
                  /\ title \notin TitlesAnswered(batch) => r.output[k] = r.input[k]

\* a call of the enricher with two batches has returned: an article with an
\* escaped title was enriched and one without a page was handed on
C19_Witness ==
    \E i \in ReturnsOf("enrichArticlesWithMetadata") :
        LET r == returns[i] IN
        /\ Len(r.input) > ENRICH_BATCH
        /\ r.to = r.from + 2
        /\ \E k, l \in 1 .. Len(r.input) :
              /\ r.input[k].article = << "HTTP", "%20", "cookie" >>
              /\ "metadata" \in DOMAIN r.output[k]
              /\ r.output[l] = r.input[l]
              /\ asked[r.from + ((l - 1) \div ENRICH_BATCH) + 1].outcome = "fetched"

\* C20: for every period the current snapshot is requested for the day
\* before today, and the comparison snapshot of fetchTrendingArticles for
\* the day 2 days back for daily, 3 for 48h, 8 for weekly and 31 for monthly;
\* no other snapshot is requested, and every other request is one for the
\* metadata of titles in the language of the operation.
C20_PeriodSetsComparisonDate ==
    LET back == CASE req.period = "daily" -> 2
                  [] req.period = "48h" -> 3
                  [] req.period = "weekly" -> 8
                  [] req.period = "monthly" -> 31
        tops == { k \in 1 .. Len(asked) : asked[k].url.kind = "top" }
    IN  req # None =>
            /\ Len(asked) >= 1
            /\ asked[1].url = [kind |-> "top", project |-> req.language, daysBack |-> 1]
            /\ Cardinality(tops) <= 2
            /\ \A k \in tops \ { 1 } :
                  asked[k].url = [kind |-> "top", project |-> req.language,
                                  daysBack |-> back]
            /\ \A k \in (1 .. Len(asked)) \ tops :
                  /\ asked[k].url.kind = "meta"
                  /\ asked[k].url.language = req.language
            /\ (Completed /\ ret.kind = "value") => Cardinality(tops) = 2

\* fetchTrendingArticles has returned for the period monthly, having fetched
\* the snapshots of yesterday and of 31 days back
C20_Witness ==
    /\ Completed
    /\ ret.kind = "value"
    /\ req.period = "monthly"
    /\ \E k \in 2 .. Len(asked) :
          /\ asked[k].url.kind = "top"
          /\ asked[k].url.daysBack = 31
          /\ asked[k].outcome = "fetched"
    /\ asked[1].url.daysBack = 1
    /\ asked[1].outcome = "fetched"

(***************************************************************************)
(* fetchTrendingArticles: claims.                                           *)
(***************************************************************************)
\* the requests of the operation for a snapshot
Tops == { k \in 1 .. Len(asked) : asked[k].url.kind = "top" }

\* the first call of the enricher that returned
FirstEnriched ==
    CHOOSE i \in ReturnsOf("enrichArticlesWithMetadata") :
        \A j \in ReturnsOf("enrichArticlesWithMetadata") : i <= j

\* C21: in fetchTrendingArticles with swissOnly = true the relevance filter
\* is called once, after both snapshots were fetched, on the output of the
\* trend calculator for the current and the previous snapshot, neither of
\* them filtered by relevance; the result is the first RESULT_CAP articles of
\* what the filter returned.
C21_FilterAfterTrends ==
    /\ \A i \in ReturnsOf("filterSwissArticlesV2") :
          LET r == returns[i]
              previous == CHOOSE k \in Tops : k # 1
              wanted == filterUnwantedPages(asked[1].data.body)
              currentData == IF wanted = << >> THEN << >>
                             ELSE slice(returns[FirstEnriched].output, 0, RESULT_CAP)
              previousData == filterUnwantedPages(asked[previous].data.body)
          IN  /\ req.swissOnly
              /\ Cardinality(ReturnsOf("filterSwissArticlesV2")) = 1
              /\ Cardinality(Tops) = 2
              /\ asked[1].outcome \in { "fetched", "hit" }
              /\ asked[previous].outcome \in { "fetched", "hit" }
              /\ r.from >= previous
              /\ wanted # << >> =>
                    /\ returns[FirstEnriched].input = wanted
                    /\ returns[FirstEnriched].to < previous
              /\ r.input = calculateTrendsImproved(currentData, previousData)
    /\ (Completed /\ ret.kind = "value" /\ req.swissOnly) =>
          \E i \in ReturnsOf("filterSwissArticlesV2") :
              ret.val = slice(returns[i].output, 0, RESULT_CAP)

\* fetchTrendingArticles has returned Swiss trends only: the filter took a
\* trending article that matches no keyword, asked for its metadata after
\* both snapshots, and kept it for its category
C21_Witness ==
    /\ Completed
    /\ ret.kind = "value"
    /\ req.swissOnly
    /\ \E i \in ReturnsOf("filterSwissArticlesV2") :
          /\ returns[i].input # << >>
          /\ ~ IsKeywordMatch(returns[i].input[1])
          /\ RequestsOf(returns[i]) # { }
          /\ returns[i].output # << >>
          /\ ret.val = returns[i].output

(***************************************************************************)
(* The response cache and the fetcher: further claims.                      *)
(***************************************************************************)
\* C22: whenever an insert evicts an entry, no entry present has an older
\* timestamp than the evicted one, stale or not, also after a stale key was
\* fetched again and its entry refreshed with a newer timestamp.
C22_EvictsOldestTimestamp ==
    [][ evicted' # evicted =>
            LET gone == MapGet(cache, evicted'[Len(evicted')]) IN
            \A i \in 1 .. Len(cache) : gone.timestamp <= cache[i].timestamp ]_vars

\* C23: the timestamp an insert stores with an entry is the time of the
\* insert, also when the fetch took retries and backoff delays.
C23_TimestampIsInsertionTime ==
    [][ \A p \in Procs :
          (pc[p] = "json" /\ pc'[p] = "returned") =>
              MapGet(cache', CacheKey(url[p])).timestamp = clock' ]_vars

\* C24: a call for a key whose entry is younger than the TTL returns the
\* payload of the entry and makes no remote call, and neither the call nor
\* its return changes the cache: the same entries with the same payloads and
\* timestamps in the same order, nothing inserted and nothing evicted.
C24_FreshHitLeavesCache ==
    [][ \A p \in Procs :
          /\ ( /\ pc[p] = "idle"
               /\ pc'[p] # "idle"
               /\ MapHas(cache, CacheKey(url'[p]))
               /\ clock - MapGet(cache, CacheKey(url'[p])).timestamp < CACHE_TTL )
             => /\ pc'[p] = "returned"
                /\ hit'[p]
                /\ result'[p] = MapGet(cache, CacheKey(url'[p])).data
                /\ calls' = calls
                /\ attempts'[p] = 0
                /\ cache' = cache
                /\ log' = log
                /\ evicted' = evicted
          /\ (pc[p] = "returned" /\ hit[p]) =>
                /\ cache' = cache
                /\ calls' = calls ]_vars

\* a call has returned the payload of the first of two entries, both still
\* in the order of their insertion
C24_Witness ==
    \E p \in Procs :
        /\ pc[p] = "returned"
        /\ hit[p]
        /\ Len(cache) = 2
        /\ cache[1].key = url[p]
        /\ result[p] = cache[1].data
        /\ log = << cache[1].key, cache[2].key >>

\* C25: within one invocation the delays awaited are 1000 ms after the
\* first failed attempt and 2000 ms after the second, never a shorter one
\* after a longer; an attempt after the first starts only from the backoff,
\* when the time its timer was set for has come; and the failure of the last
\* attempt is raised at once, with no delay awaited.
C25_BackoffDelays ==
    [][ \A p \in Procs :
          /\ waited'[p] \in { << >>, << 1000 >>, << 1000, 2000 >> }
          /\ (pc[p] # "sleep" /\ pc'[p] = "sleep") =>
                /\ waited'[p] = Append(waited[p], delay[p])
                /\ Len(waited'[p]) = attempts[p]
                /\ wakeAt'[p] = clock + delay[p]
          /\ (pc[p] # "fetch" /\ pc'[p] = "fetch" /\ attempts'[p] > 1) =>
                /\ pc[p] = "sleep"
                /\ attempts'[p] = attempts[p] + 1
                /\ Len(waited[p]) = attempts[p]
                /\ clock' >= wakeAt[p]
          /\ (pc[p] # "threw" /\ pc'[p] = "threw") =>
                /\ waited'[p] = waited[p]
                /\ waited[p] = << 1000, 2000 >>
                /\ clock' = clock ]_vars

\* an invocation has failed for good 3000 ms after it was called, having
\* awaited both delays
C25_Witness ==
    \E p \in Procs :
        /\ pc[p] = "threw"
        /\ waited[p] = << 1000, 2000 >>
        /\ clock = now[p] + 3000

\* C26: a transport failure, a non-success status and a malformed payload
\* are handled alike: each takes one attempt off the invocation, is followed
\* by the same backoff when an attempt is left and by the raise of this error
\* when none is, and leaves the cache as it was.
C26_FailuresHandledAlike ==
    [][ \A p \in Procs :
          (lastError'[p] # lastError[p] /\ lastError'[p].kind = "error") =>
              /\ lastError'[p].cause \in { "transport", "status", "parse" }
              /\ lastError'[p].cause = "parse" <=> pc[p] = "json"
              /\ lastError'[p].attempt = attempts[p]
              /\ retries'[p] = retries[p] - 1
              /\ attempts'[p] = attempts[p]
              /\ calls' = calls
              /\ cache' = cache
              /\ log' = log
              /\ evicted' = evicted
              /\ retries[p] > 1 =>
                    /\ pc'[p] = "sleep"
                    /\ waited'[p] = Append(waited[p], delay[p])
                    /\ wakeAt'[p] = clock + delay[p]
              /\ retries[p] = 1 =>
                    /\ pc'[p] = "threw"
                    /\ result'[p] = lastError'[p]
                    /\ waited'[p] = waited[p] ]_vars

\* an invocation awaits its second backoff after a malformed payload, its
\* first attempt having failed too and the cache holding another entry
C26_Witness ==
    \E p \in Procs :
        /\ pc[p] = "sleep"
        /\ lastError[p].cause = "parse"
        /\ attempts[p] = 2
        /\ waited[p] = << 1000, 2000 >>
        /\ Len(cache) = 1

\* C28: an invocation that fails after its last attempt, no other running,
\* leaves the cache as it found it: the same entries with the same payloads
\* and timestamps in the same order, a stale entry for its url included.
C28_FailureLeavesCache ==
    \A p \in Procs :
        pc[p] = "threw" =>
            /\ cache = atEntry[p]
            /\ MapHas(atEntry[p], CacheKey(url[p])) =>
                  /\ MapHas(cache, CacheKey(url[p]))
                  /\ EntryOf(p) = MapGet(atEntry[p], CacheKey(url[p]))

\* an invocation for a url whose entry is older than the TTL has failed for
\* good, the cache full
C28_Witness ==
    \E p \in Procs :
        /\ pc[p] = "threw"
        /\ attempts[p] = 3
        /\ Len(cache) = 2
        /\ MapHas(cache, CacheKey(url[p]))
        /\ now[p] - EntryOf(p).timestamp >= CACHE_TTL

(***************************************************************************)
(* The trend calculator: a further claim.                                   *)
(***************************************************************************)
\* C29: no article of the output of the trend calculator has reliability
\* low: every one is in the previous snapshot with at least 100 views there,
\* so an article that is new in the current snapshot is never in the output.
C29_NoLowInOutput ==
    tpc = "done" =>
        \A i \in 1 .. Len(trending) :
            /\ trending[i].reliability \in { "medium", "high" }
            /\ trending[i].previousViews >= 100
            /\ \E j \in 1 .. Len(previousArticles) :
                  /\ previousArticles[j].article = trending[i].article
                  /\ previousArticles[j].views = trending[i].previousViews
                  /\ previousArticles[j].views >= 100

\* of two current articles the one already in the previous snapshot is in
\* the output and the new one is not
C29_Witness ==
    /\ tpc = "done"
    /\ Len(currentArticles) = 2
    /\ Len(trending) = 1
    /\ \E i \in 1 .. 2 :
          /\ currentArticles[i].article # trending[1].article
          /\ \A j \in 1 .. Len(previousArticles) :
                previousArticles[j].article # currentArticles[i].article

(***************************************************************************)
(* Termination.                                                             *)
(***************************************************************************)
\* C27: when every remote call responds or fails and every timer fires, an
\* invocation of fetchFromAPI makes at most 3 remote calls and ends, with a
\* payload or with an error, and every call of fetchTopArticles and of
\* fetchTrendingArticles ends.
C27_Terminates ==
    /\ [](\A p \in Procs : attempts[p] <= 3)
    /\ \A p \in Procs : (pc[p] # "idle") ~> (pc[p] \in { "returned", "threw" })
    /\ (stack # << >>) ~> Completed

\* fetchTrendingArticles has returned Swiss trends, a fetch on its way
\* having taken three remote calls
C27_Witness ==
    /\ Completed
    /\ ret.kind = "value"
    /\ "period" \in DOMAIN req
    /\ req.swissOnly
    /\ Len(ret.val) > 0
    /\ calls >= 5

====
